---- MODULE Spec2Model ----
(***************************************************************************)
(* Model of the vue-db-viewer core: the split-pane resize engine           *)
(* (src/src/composables/useSplitPane.ts) and the master table store        *)
(* (src/src/stores/useMasterStore.ts) with the table handlers that call it *)
(* (VDBMasterTable.vue).                                                   *)
(*                                                                         *)
(* Numbers.  Pixel quantities are integers, drawn from a grid of 100 px.    *)
(* The split ratio is kept as the exact fraction [num, den], in lowest     *)
(* terms with den > 0, of the quotient that produced it; the clamp only    *)
(* selects among such quotients.  Where the code goes on computing with    *)
(* the ratio (the width percentages) the arithmetic is binary floating     *)
(* point: every operation returns the exact result rounded to the nearest  *)
(* number of MantissaBits significant bits, ties to even.                  *)
(***************************************************************************)
EXTENDS Integers, Sequences, FiniteSets, TLC

(***************************************************************************)
(* Bounds of the model.                                                    *)
(***************************************************************************)
MaxWidth == 5          \* container widths 200, 400 .. 200 * MaxWidth px
MaxMin == 2            \* configured minimum widths 0, 200 .. 200 * MaxMin px
RatioSteps == 2        \* configured initial ratios k/RatioSteps, k in 0..RatioSteps
PointerMargin == 1     \* pointer positions reach 100 * PointerMargin px beyond the widest container
MaxRows == 3           \* datasets of the sort specification hold at most MaxRows rows
MaxPayload == 2        \* datasets passed to setData in the store specification: at most MaxPayload rows
MaxInFlight == 2       \* fetchData calls awaiting their response at one time
MantissaBits == 8      \* significant bits of a floating-point number (53 in a JavaScript number)

(***************************************************************************)
(* Exact fractions standing for JavaScript numbers.                        *)
(***************************************************************************)
Abs(n) == IF n < 0 THEN -n ELSE n

RECURSIVE GCD(_, _)
GCD(a, b) == IF b = 0 THEN a ELSE GCD(b, a % b)

\* x / y for y > 0, kept in lowest terms
Div(x, y) ==
    LET g == GCD(Abs(x), y)
    IN  [num |-> x \div g, den |-> y \div g]

RLeq(a, b) == a.num * b.den <= b.num * a.den
RLt(a, b) == a.num * b.den < b.num * a.den

\* Math.min / Math.max
MathMin(a, b) == IF RLeq(a, b) THEN a ELSE b
MathMax(a, b) == IF RLeq(b, a) THEN a ELSE b

\* 1 - a
OneMinus(a) == Div(a.den - a.num, a.den)

RAdd(a, b) == Div(a.num * b.den + b.num * a.den, a.den * b.den)
RSub(a, b) == Div(a.num * b.den - b.num * a.den, a.den * b.den)
RMul(a, b) == Div(a.num * b.num, a.den * b.den)

\* (a + b) / 2
Midpoint(a, b) == Div(a.num * b.den + b.num * a.den, 2 * a.den * b.den)

One == [num |-> 1, den |-> 1]
Hundred == [num |-> 100, den |-> 1]

(***************************************************************************)
(* Floating-point rounding of an exact result.                             *)
(***************************************************************************)
RECURSIVE Pow2(_)
Pow2(k) == IF k = 0 THEN 1 ELSE 2 * Pow2(k - 1)

\* n / d = (n' / d') * 2^(-k) with 2^(MantissaBits - 1) <= n' / d' < 2^MantissaBits
RECURSIVE Normalize(_, _, _)
Normalize(n, d, k) ==
    IF n >= Pow2(MantissaBits) * d THEN Normalize(n, 2 * d, k - 1)
    ELSE IF n < Pow2(MantissaBits - 1) * d THEN Normalize(2 * n, d, k + 1)
    ELSE [n |-> n, d |-> d, k |-> k]

\* the number nearest to the fraction q: round to nearest, ties to even
Round(q) ==
    IF q.num = 0 THEN q
    ELSE LET sign == IF q.num < 0 THEN -1 ELSE 1
             z == Normalize(Abs(q.num), q.den, 0)
             m == z.n \div z.d
             rem == z.n - m * z.d
             up == 2 * rem > z.d \/ (2 * rem = z.d /\ m % 2 = 1)
             mantissa == IF up THEN m + 1 ELSE m
         IN  IF z.k >= 0
             THEN Div(sign * mantissa, Pow2(z.k))
             ELSE Div(sign * mantissa * Pow2(0 - z.k), 1)

\* the operators - and * on numbers
NumberSub(a, b) == Round(RSub(a, b))
NumberMul(a, b) == Round(RMul(a, b))

(***************************************************************************)
(* State                                                                   *)
(***************************************************************************)
VARIABLES
    options,          \* useSplitPane options after defaults are applied
    containerRect,    \* getBoundingClientRect() of the container element
    mountState,       \* "setup" | "mounted" | "unmounted"
    listeners,        \* TRUE while the document mousemove/mouseup listeners are registered
    splitRatio,       \* ref splitRatio
    isDragging,       \* ref isDragging
    body,             \* document.body.style: cursor and userSelect
    lastEvent,        \* the split-pane handler that ran last, with its input
    data,             \* ref data: the rows
    selectedRow,      \* ref selectedRow (Null when absent)
    selectedIndex,    \* ref selectedIndex (-1 when absent)
    isLoading,        \* ref isLoading
    sortColumn,       \* ref sortColumn (NullKey when absent)
    sortDirection,    \* ref sortDirection ("asc", "desc" or NullDir)
    inFlight,         \* the fetchData calls suspended at their await, in the order they
                      \* were started: TRUE for a call started before one that has
                      \* already delivered its rows
    selectionMode,    \* config.selectionMode of the master table
    engine,           \* the JavaScript engine's Array.prototype.sort
    lastCall          \* the store operation or table handler that ran last, with its input

splitVars == <<options, containerRect, mountState, listeners, splitRatio,
               isDragging, body, lastEvent>>

storeVars == <<data, selectedRow, selectedIndex, isLoading, sortColumn,
               sortDirection, inFlight, selectionMode, engine, lastCall>>

vars == <<splitVars, storeVars>>

(***************************************************************************)
(* Split-Ratio Engine: useSplitPane                                        *)
(***************************************************************************)
DefaultRatio == [num |-> 1, den |-> 2]     \* initialRatio = 0.5
DefaultMinWidth == 400                     \* minLeftWidth = minRightWidth = 400

Px(k) == 100 * k

InitialRatios == {Div(k, RatioSteps) : k \in 0..RatioSteps} \cup {DefaultRatio}
MinWidths == {Px(2 * k) : k \in 0..MaxMin} \cup {DefaultMinWidth}
Widths == {Px(2 * k) : k \in 1..MaxWidth}
Lefts == {Px(0), Px(1)}
PointerXs == {Px(k) : k \in (0 - PointerMargin)..(2 * MaxWidth + PointerMargin)}

DefaultOptions ==
    [initialRatio |-> DefaultRatio, minLeftWidth |-> DefaultMinWidth,
     minRightWidth |-> DefaultMinWidth, resizable |-> TRUE]

NoEvent == [type |-> "none", clientX |-> 0, wasDragging |-> FALSE]
Event(t, x) == [type |-> t, clientX |-> x, wasDragging |-> isDragging]

\* containerRef.value is the container element between mount and unmount
containerAttached == mountState = "mounted"

\* computed leftWidth / rightWidth, as numbers of percent
leftWidth == NumberMul(Round(splitRatio), Hundred)
rightWidth == NumberMul(NumberSub(One, Round(splitRatio)), Hundred)

\* state right after useSplitPane(containerRef, options) returns
useSplitPane(opts, rect) ==
    /\ options = opts
    /\ containerRect = rect
    /\ mountState = "setup"
    /\ listeners = FALSE
    /\ splitRatio = opts.initialRatio
    /\ isDragging = FALSE
    /\ body = [cursor |-> "", userSelect |-> ""]
    /\ lastEvent = NoEvent

SplitInit ==
    \E r \in InitialRatios, l \in MinWidths, rt \in MinWidths, rs \in BOOLEAN,
       w \in Widths, left \in Lefts :
        useSplitPane([initialRatio |-> r, minLeftWidth |-> l,
                      minRightWidth |-> rt, resizable |-> rs],
                     [left |-> left, width |-> w])

SplitDefaultInit ==
    useSplitPane(DefaultOptions, [left |-> 0, width |-> 1000])

\* onMounted: the template ref is set, the document listeners are registered
onMounted ==
    /\ mountState = "setup"
    /\ mountState' = "mounted"
    /\ listeners' = options.resizable
    /\ lastEvent' = Event("mount", 0)
    /\ UNCHANGED <<options, containerRect, splitRatio, isDragging, body>>
    /\ UNCHANGED storeVars

\* onUnmounted leaving the listeners on the document
listenersAfterUnmount_kept == listeners

\* the listeners once the onUnmounted hook has run
listenersAfterUnmount == IF options.resizable THEN FALSE ELSE listeners

\* onUnmounted: the template ref is cleared, the document listeners are removed
onUnmounted ==
    /\ mountState = "mounted"
    /\ mountState' = "unmounted"
    /\ listeners' = listenersAfterUnmount
    /\ lastEvent' = Event("unmount", 0)
    /\ UNCHANGED <<options, containerRect, splitRatio, isDragging, body>>
    /\ UNCHANGED storeVars

\* the component is created again after it was torn down: a new useSplitPane
\* instance with fresh refs, in the same document
useSplitPaneAgain ==
    /\ mountState = "unmounted"
    /\ mountState' = "setup"
    /\ listeners' = FALSE
    /\ splitRatio' = options.initialRatio
    /\ isDragging' = FALSE
    /\ lastEvent' = Event("setup", 0)
    /\ UNCHANGED <<options, containerRect, body>>
    /\ UNCHANGED storeVars

\* the early return without its resizable test
downIgnored_noResizableCheck == ~containerAttached

\* the early return of handleMouseDown
downIgnored == ~options.resizable \/ ~containerAttached

\* handleMouseDown(event)
handleMouseDown ==
    /\ lastEvent' = Event("mousedown", 0)
    /\ IF downIgnored
       THEN UNCHANGED <<isDragging, body>>
       ELSE /\ isDragging' = TRUE
            /\ body' = [cursor |-> "col-resize", userSelect |-> "none"]
    /\ UNCHANGED <<options, containerRect, mountState, listeners, splitRatio>>

\* the clamp without its lower bound
clampRatio_noLowerBound(newRatio, minLeftRatio, maxLeftRatio) ==
    MathMin(maxLeftRatio, newRatio)

\* the clamp with its two bounds applied in the other order
clampRatio_upperBoundLast(newRatio, minLeftRatio, maxLeftRatio) ==
    MathMin(maxLeftRatio, MathMax(minLeftRatio, newRatio))

\* Math.max(minLeftRatio, Math.min(maxLeftRatio, newRatio))
clampRatio(newRatio, minLeftRatio, maxLeftRatio) ==
    MathMax(minLeftRatio, MathMin(maxLeftRatio, newRatio))

\* the ratio moved halfway from its present value towards the pointer
newSplitRatio_eased(clientX, rect, opts) ==
    Midpoint(splitRatio,
             clampRatio(Div(clientX - rect.left, rect.width),
                        Div(opts.minLeftWidth, rect.width),
                        OneMinus(Div(opts.minRightWidth, rect.width))))

\* the ratio handleMouseMove computes from the pointer and the container rect
newSplitRatio(clientX, rect, opts) ==
    LET containerWidth == rect.width
        mouseX == clientX - rect.left
        newRatio == Div(mouseX, containerWidth)
        minLeftRatio == Div(opts.minLeftWidth, containerWidth)
        maxLeftRatio == OneMinus(Div(opts.minRightWidth, containerWidth))
    IN  clampRatio(newRatio, minLeftRatio, maxLeftRatio)

\* the early return without its isDragging test
moveIgnored_noDragCheck == ~containerAttached

\* the early return of handleMouseMove
moveIgnored == ~isDragging \/ ~containerAttached

\* handleMouseMove ending the drag when the pointer leaves the container
handleMouseMove_endsDragOutside(clientX) ==
    /\ lastEvent' = Event("mousemove", clientX)
    /\ IF moveIgnored
       THEN UNCHANGED <<splitRatio, isDragging>>
       ELSE /\ splitRatio' = newSplitRatio(clientX, containerRect, options)
            /\ isDragging' = (/\ clientX >= containerRect.left
                              /\ clientX <= containerRect.left + containerRect.width)
    /\ UNCHANGED <<options, containerRect, mountState, listeners, body>>

\* handleMouseMove(event)
handleMouseMove(clientX) ==
    /\ lastEvent' = Event("mousemove", clientX)
    /\ IF moveIgnored
       THEN UNCHANGED splitRatio
       ELSE splitRatio' = newSplitRatio(clientX, containerRect, options)
    /\ UNCHANGED <<options, containerRect, mountState, listeners, isDragging, body>>

\* handleMouseUp putting the ratio back to its initial value
handleMouseUp_restoresRatio ==
    /\ lastEvent' = Event("mouseup", 0)
    /\ IF ~isDragging
       THEN UNCHANGED <<isDragging, body, splitRatio>>
       ELSE /\ isDragging' = FALSE
            /\ body' = [cursor |-> "", userSelect |-> ""]
            /\ splitRatio' = options.initialRatio
    /\ UNCHANGED <<options, containerRect, mountState, listeners>>

\* handleMouseUp()
handleMouseUp ==
    /\ lastEvent' = Event("mouseup", 0)
    /\ IF ~isDragging
       THEN UNCHANGED <<isDragging, body>>
       ELSE /\ isDragging' = FALSE
            /\ body' = [cursor |-> "", userSelect |-> ""]
    /\ UNCHANGED <<options, containerRect, mountState, listeners, splitRatio>>

\* mousedown on the resizer element
ResizerMouseDown == handleMouseDown /\ UNCHANGED storeVars

\* a document event while this instance has no listener registered: none of
\* its handlers runs
unheard ==
    /\ lastEvent' = Event("unheard", 0)
    /\ UNCHANGED <<options, containerRect, mountState, listeners, splitRatio,
                   isDragging, body>>

\* document mousemove, delivered to the listener if it is registered
DocumentMouseMove ==
    \E x \in PointerXs :
        /\ IF listeners THEN handleMouseMove(x) ELSE unheard
        /\ UNCHANGED storeVars

\* document mouseup, delivered to the listener if it is registered
DocumentMouseUp ==
    /\ IF listeners THEN handleMouseUp ELSE unheard
    /\ UNCHANGED storeVars

\* the page layout changes the container's width (window resize)
ContainerResize ==
    /\ mountState = "mounted"
    /\ \E w \in Widths \ {containerRect.width} :
        containerRect' = [containerRect EXCEPT !.width = w]
    /\ lastEvent' = Event("resize", 0)
    /\ UNCHANGED <<options, mountState, listeners, splitRatio, isDragging, body>>
    /\ UNCHANGED storeVars

SplitNext ==
    \/ onMounted
    \/ onUnmounted
    \/ useSplitPaneAgain
    \/ ResizerMouseDown
    \/ DocumentMouseMove
    \/ DocumentMouseUp
    \/ ContainerResize

(***************************************************************************)
(* Table State Store: useMasterStore                                       *)
(***************************************************************************)
Null == [id |-> 0, name |-> "null"]        \* JavaScript null in place of a row
NullKey == "null"                          \* null sort column
NullDir == "null"                          \* null sort direction
Undefined == "undefined"                   \* value of a field the row does not have

Names == {"A", "B"}
NameRank(n) == IF n = "A" THEN 1 ELSE 2    \* lexicographic order of the strings
Columns == {"id", "name"}
Directions == {"asc", "desc"}
Engines == {"v8", "merge"}
SelectionModes == {"single", "multiple", "none"}
rowKey == "id"                             \* config.rowKey

Row(i, n) == [id |-> i, name |-> n]

\* a[sortColumn] < b[sortColumn] with the JavaScript relational operator:
\* numbers by value, strings lexicographically, undefined never less
JsLess(a, b, col) ==
    IF col = "id" THEN a.id < b.id
    ELSE IF col = "name"
         THEN /\ a.name # Undefined
              /\ b.name # Undefined
              /\ NameRank(a.name) < NameRank(b.name)
         ELSE FALSE

\* the comparator passed to sort
compare(a, b, col, dir) ==
    IF JsLess(a, b, col) THEN (IF dir = "asc" THEN -1 ELSE 1)
    ELSE IF JsLess(b, a, col) THEN (IF dir = "asc" THEN 1 ELSE -1)
    ELSE 0

Reverse(s) == [i \in 1..Len(s) |-> s[Len(s) + 1 - i]]
InsertAt(s, pos, x) == SubSeq(s, 1, pos - 1) \o <<x>> \o SubSeq(s, pos, Len(s))

\* V8 (TimSort, arrays shorter than 64): the leading run, then binary insertion
RECURSIVE RunLength(_, _, _, _, _)
RunLength(s, i, descending, col, dir) ==
    IF i > Len(s) THEN Len(s)
    ELSE LET order == compare(s[i], s[i - 1], col, dir)
         IN  IF (descending /\ order >= 0) \/ (~descending /\ order < 0)
             THEN i - 1
             ELSE RunLength(s, i + 1, descending, col, dir)

RECURSIVE BinaryPos(_, _, _, _, _, _)
BinaryPos(s, pivot, left, right, col, dir) ==
    IF left >= right THEN left
    ELSE LET mid == left + ((right - left) \div 2)
         IN  IF compare(pivot, s[mid + 1], col, dir) < 0
             THEN BinaryPos(s, pivot, left, mid, col, dir)
             ELSE BinaryPos(s, pivot, mid + 1, right, col, dir)

RECURSIVE BinaryInsertion(_, _, _, _)
BinaryInsertion(sorted, rest, col, dir) ==
    IF rest = <<>> THEN sorted
    ELSE LET pos == BinaryPos(sorted, Head(rest), 0, Len(sorted), col, dir)
         IN  BinaryInsertion(InsertAt(sorted, pos + 1, Head(rest)), Tail(rest), col, dir)

TimSort(s, col, dir) ==
    IF Len(s) < 2 THEN s
    ELSE LET descending == compare(s[2], s[1], col, dir) < 0
             n == RunLength(s, 3, descending, col, dir)
             run == IF descending THEN Reverse(SubSeq(s, 1, n)) ELSE SubSeq(s, 1, n)
         IN  BinaryInsertion(run, SubSeq(s, n + 1, Len(s)), col, dir)

\* a stable top-down merge sort, the other engines' algorithm
RECURSIVE Merge(_, _, _, _)
Merge(l, r, col, dir) ==
    IF l = <<>> THEN r
    ELSE IF r = <<>> THEN l
    ELSE IF compare(Head(r), Head(l), col, dir) < 0
         THEN <<Head(r)>> \o Merge(l, Tail(r), col, dir)
         ELSE <<Head(l)>> \o Merge(Tail(l), r, col, dir)

RECURSIVE MergeSort(_, _, _)
MergeSort(s, col, dir) ==
    IF Len(s) < 2 THEN s
    ELSE LET mid == Len(s) \div 2
         IN  Merge(MergeSort(SubSeq(s, 1, mid), col, dir),
                   MergeSort(SubSeq(s, mid + 1, Len(s)), col, dir), col, dir)

\* Array.prototype.sort with the store's comparator
ArraySort(s, col, dir, eng) ==
    IF eng = "v8" THEN TimSort(s, col, dir) ELSE MergeSort(s, col, dir)

\* the guard testing the column alone
noSort_keyOnly(col, dir) == col = NullKey

\* !sortColumn.value || !sortDirection.value
noSort(col, dir) == col = NullKey \/ dir = NullDir

\* data.value.sort(...) without the spread: the sort works in place
dataAfterSort_inPlace(d, sorted) == sorted

\* what data.value holds once [...data.value].sort(...) has run: the sort
\* works on the spread copy
dataAfterSort(d, sorted) == d

\* one evaluation of the computed sortedData: its value, and data.value afterwards
evalSortedData(d, col, dir, eng) ==
    IF noSort(col, dir)
    THEN [value |-> d, data |-> d]
    ELSE LET sorted == ArraySort(d, col, dir, eng)
         IN  [value |-> sorted, data |-> dataAfterSort(d, sorted)]

\* the computed sortedData in the current state
sortedData == evalSortedData(data, sortColumn, sortDirection, engine).value

\* the computed hasSelection
hasSelection == selectedRow # Null

\* data.value after the table, bound to sortedData, has rendered
rendered(d, col, dir) == evalSortedData(d, col, dir, engine).data

\* the rows a dataset may hold: ids 1..n, a name or no name field
Rows(n) == {Row(i, nm) : i \in 1..n, nm \in Names \cup {Undefined}}

IsDataset(s) == \A i, j \in 1..Len(s) : i # j => s[i].id # s[j].id

\* datasets of at most n rows with pairwise distinct row keys
Datasets(n) ==
    {s \in UNION {[1..k -> Rows(n)] : k \in 0..n} : IsDataset(s)}

\* sampleUsers, cut to its first n rows; the names of rows 1 and 2 compare as B > A
SampleRow(i) == Row(i, IF i % 2 = 1 THEN "B" ELSE "A")
sampleUsers(n) == [i \in 1..n |-> SampleRow(i)]

\* datasets made of sample rows, in any order
SampleDatasets(n) ==
    {s \in UNION {[1..k -> {SampleRow(i) : i \in 1..n}] : k \in 0..n} : IsDataset(s)}

\* lastCall: the operation, its arguments, and the selection it found
NoCall ==
    [op |-> "none", row |-> Null, index |-> -1, key |-> NullKey, dir |-> NullDir,
     flag |-> FALSE, rows |-> <<>>, prevRow |-> Null, prevIndex |-> -1,
     promise |-> "none"]
Call(op) == [NoCall EXCEPT !.op = op]
CallOnSelection(op) ==
    [NoCall EXCEPT !.op = op, !.prevRow = selectedRow, !.prevIndex = selectedIndex]
CallSelect(op, row, index) == [NoCall EXCEPT !.op = op, !.row = row, !.index = index]
CallFlag(op, flag) == [NoCall EXCEPT !.op = op, !.flag = flag]
CallSort(op, key, dir) == [NoCall EXCEPT !.op = op, !.key = key, !.dir = dir]

\* state right after the store's setup function has run
useMasterStore(initialData, mode, eng) ==
    /\ data = initialData
    /\ selectedRow = Null
    /\ selectedIndex = -1
    /\ isLoading = FALSE
    /\ sortColumn = NullKey
    /\ sortDirection = NullDir
    /\ inFlight = <<>>
    /\ selectionMode = mode
    /\ engine = eng
    /\ lastCall = NoCall

\* the store of the demo application: single selection, run by V8
StoreInit == useMasterStore(sampleUsers(MaxPayload), "single", "v8")

\* selectRow(row, index)
selectRow(row, index) ==
    /\ selectedRow' = row
    /\ selectedIndex' = index

\* clearSelection forgetting the index
clearSelection_keepIndex ==
    /\ selectedRow' = Null
    /\ UNCHANGED selectedIndex

\* clearSelection()
clearSelection ==
    /\ selectedRow' = Null
    /\ selectedIndex' = -1

\* setData without its clearSelection() call
setData_keepSelection(newData) ==
    /\ data' = rendered(newData, sortColumn, sortDirection)
    /\ UNCHANGED <<selectedRow, selectedIndex>>

\* setData(newData)
setData(newData) ==
    /\ data' = rendered(newData, sortColumn, sortDirection)
    /\ clearSelection

\* setSort keeping the old column when it is given none
setSort_keepColumnOnNull(column, direction) ==
    /\ sortColumn' = (IF column = NullKey THEN sortColumn ELSE column)
    /\ sortDirection' = direction
    /\ data' = rendered(data, sortColumn', direction)

\* setSort(column, direction)
setSort(column, direction) ==
    /\ sortColumn' = column
    /\ sortDirection' = direction
    /\ data' = rendered(data, column, direction)

\* setLoading flipping the flag whatever its argument
setLoading_toggle(loading) == isLoading' = ~isLoading

\* setLoading(loading)
setLoading(loading) == isLoading' = loading

\* findIndex over sortedData by row key; -1 when no row matches
RECURSIVE findIndexFrom(_, _, _)
findIndexFrom(s, key, i) ==
    IF i > Len(s) THEN -1
    ELSE IF s[i].id = key THEN i - 1
    ELSE findIndexFrom(s, key, i + 1)

findIndex(s, row) == findIndexFrom(s, row.id, 1)

(***************************************************************************)
(* Calls of the store's actions                                            *)
(***************************************************************************)
SelectRow ==
    \E row \in {SampleRow(i) : i \in 1..MaxPayload} \cup {Null},
       index \in -1..MaxPayload :
        /\ selectRow(row, index)
        /\ lastCall' = CallSelect("selectRow", row, index)
        /\ UNCHANGED <<data, isLoading, sortColumn, sortDirection, inFlight,
                       selectionMode, engine>>
        /\ UNCHANGED splitVars

ClearSelection ==
    /\ clearSelection
    /\ lastCall' = Call("clearSelection")
    /\ UNCHANGED <<data, isLoading, sortColumn, sortDirection, inFlight,
                   selectionMode, engine>>
    /\ UNCHANGED splitVars

SetData ==
    \E newData \in SampleDatasets(MaxPayload) :
        /\ setData(newData)
        /\ lastCall' = CallOnSelection("setData")
        /\ UNCHANGED <<isLoading, sortColumn, sortDirection, inFlight,
                       selectionMode, engine>>
        /\ UNCHANGED splitVars

SetSort ==
    \E column \in Columns \cup {NullKey}, direction \in Directions \cup {NullDir} :
        /\ setSort(column, direction)
        /\ lastCall' = CallSort("setSort", column, direction)
        /\ UNCHANGED <<selectedRow, selectedIndex, isLoading, inFlight,
                       selectionMode, engine>>
        /\ UNCHANGED splitVars

SetLoading ==
    \E loading \in BOOLEAN :
        /\ setLoading(loading)
        /\ lastCall' = CallFlag("setLoading", loading)
        /\ UNCHANGED <<data, selectedRow, selectedIndex, sortColumn, sortDirection,
                       inFlight, selectionMode, engine>>
        /\ UNCHANGED splitVars

\* the suspended calls once call i has resumed; when it delivered rows, the
\* calls started before it have been overtaken
Resumed(i, delivered) ==
    [j \in 1..(Len(inFlight) - 1) |->
        IF j < i THEN (delivered \/ inFlight[j]) ELSE inFlight[j + 1]]

\* a response that arrives after a later call's is dropped
applyResponse_dropOvertaken(overtaken, result) ==
    IF overtaken
    THEN UNCHANGED <<data, selectedRow, selectedIndex>>
    ELSE setData(result)

\* the try block after its awaits: setData(result), whichever call this is
applyResponse(overtaken, result) == setData(result)

\* the catch block: console.error(...), nothing else
onRejected_clearsRows == setData(<<>>)

onRejected == UNCHANGED <<data, selectedRow, selectedIndex>>

\* the promise of a fetchData call that has run to its end: the catch block
\* does not throw again, nor does the finally block
fetchDataSettles == "fulfilled"

\* fetchData(url) up to its first await
FetchStart ==
    /\ Len(inFlight) < MaxInFlight
    /\ setLoading(TRUE)
    /\ inFlight' = Append(inFlight, FALSE)
    /\ lastCall' = [Call("fetchStart") EXCEPT !.promise = "pending"]
    /\ UNCHANGED <<data, selectedRow, selectedIndex, sortColumn, sortDirection,
                   selectionMode, engine>>
    /\ UNCHANGED splitVars

\* fetchData(url) called while no other call is suspended
FetchAlone == inFlight = <<>> /\ FetchStart

\* a suspended fetchData resumes with the parsed response
FetchResolve ==
    \E i \in 1..Len(inFlight), result \in SampleDatasets(MaxPayload) :
        /\ applyResponse(inFlight[i], result)
        /\ setLoading(FALSE)
        /\ inFlight' = Resumed(i, TRUE)
        /\ lastCall' = [CallOnSelection("fetchResolve") EXCEPT
                            !.flag = inFlight[i], !.rows = result,
                            !.promise = fetchDataSettles]
        /\ UNCHANGED <<sortColumn, sortDirection, selectionMode, engine>>
        /\ UNCHANGED splitVars

\* a suspended fetchData resumes in its catch block
FetchReject ==
    \E i \in 1..Len(inFlight) :
        /\ onRejected
        /\ setLoading(FALSE)
        /\ inFlight' = Resumed(i, FALSE)
        /\ lastCall' = [Call("fetchReject") EXCEPT !.promise = fetchDataSettles]
        /\ UNCHANGED <<sortColumn, sortDirection, selectionMode, engine>>
        /\ UNCHANGED splitVars

(***************************************************************************)
(* Viewer instances and the store each of them holds.  The operations of   *)
(* this model are those caused by the viewer "A"; a second viewer "B" is   *)
(* alive in the same application and only observes.                        *)
(***************************************************************************)
Viewers == {"A", "B"}

\* a store id of its own for every viewer
storeIdOf_perViewer(viewer) == viewer

\* defineStore('master', ...): useMasterStore() returns, in every component, the
\* store registered under the id 'master'
storeIdOf(viewer) == "master"

\* the state of the store the operations act on
storeState ==
    [data |-> data, selectedRow |-> selectedRow, selectedIndex |-> selectedIndex,
     isLoading |-> isLoading, sortColumn |-> sortColumn,
     sortDirection |-> sortDirection]

\* the state of a store that no operation has touched since its setup
untouchedStore ==
    [data |-> sampleUsers(MaxPayload), selectedRow |-> Null, selectedIndex |-> -1,
     isLoading |-> FALSE, sortColumn |-> NullKey, sortDirection |-> NullDir]

\* what a viewer reads from its masterStore
observedBy(viewer) ==
    IF storeIdOf(viewer) = storeIdOf("A") THEN storeState ELSE untouchedStore

(***************************************************************************)
(* Handlers of the master table (VDBMasterTable.vue)                       *)
(***************************************************************************)
isSingleSelection == selectionMode = "single"

\* the index looked up in the rows as stored
indexOfRow_inData(row) == findIndex(data, row)

\* masterStore.sortedData.findIndex(item => item[rowKey] === row[rowKey])
indexOfRow(row) == findIndex(sortedData, row)

\* handleRowClick(row): el-table reports a row of its data, sortedData
handleRowClick(row) ==
    IF ~isSingleSelection
    THEN UNCHANGED <<selectedRow, selectedIndex>>
    ELSE selectRow(row, indexOfRow(row))

\* handleSelectionChange taking the first checked row
handleSelectionChange_firstChecked(selection) ==
    IF isSingleSelection \/ Len(selection) = 0
    THEN UNCHANGED <<selectedRow, selectedIndex>>
    ELSE selectRow(selection[1], indexOfRow(selection[1]))

\* handleSelectionChange(selection)
handleSelectionChange(selection) ==
    IF isSingleSelection \/ Len(selection) = 0
    THEN UNCHANGED <<selectedRow, selectedIndex>>
    ELSE LET lastSelected == selection[Len(selection)]
         IN  selectRow(lastSelected, indexOfRow(lastSelected))

\* the row handleSelectionChange takes from the selection, if it takes one
lastSelectedOf(selection) ==
    IF isSingleSelection \/ Len(selection) = 0 THEN Null
    ELSE selection[Len(selection)]

\* handleSortChange({ prop, order })
handleSortChange(prop, order) ==
    LET direction == IF order = "ascending" THEN "asc"
                     ELSE IF order = "descending" THEN "desc"
                     ELSE NullDir
    IN  setSort(prop, direction)

RowClick ==
    \E i \in 1..Len(sortedData) :
        /\ handleRowClick(sortedData[i])
        /\ lastCall' = CallSelect("rowClick", sortedData[i], i - 1)
        /\ UNCHANGED <<data, isLoading, sortColumn, sortDirection, inFlight,
                       selectionMode, engine>>
        /\ UNCHANGED splitVars

\* the checked rows of the table, in the order they were checked
Selections(view) ==
    {sel \in UNION {[1..k -> {view[i] : i \in 1..Len(view)}] : k \in 0..Len(view)} :
        IsDataset(sel)}

SelectionChange ==
    \E selection \in Selections(sortedData) :
        /\ handleSelectionChange(selection)
        /\ lastCall' = CallSelect("selectionChange", lastSelectedOf(selection), -1)
        /\ UNCHANGED <<data, isLoading, sortColumn, sortDirection, inFlight,
                       selectionMode, engine>>
        /\ UNCHANGED splitVars

\* a header click: el-table cycles ascending, descending, null on a column
SortChange ==
    \E prop \in Columns, order \in {"ascending", "descending", "null"} :
        /\ handleSortChange(prop, order)
        /\ lastCall' = CallSort("sortChange", prop, order)
        /\ UNCHANGED <<selectedRow, selectedIndex, isLoading, inFlight,
                       selectionMode, engine>>
        /\ UNCHANGED splitVars

StoreNext ==
    \/ SelectRow
    \/ ClearSelection
    \/ SetData
    \/ SetSort
    \/ SetLoading
    \/ FetchAlone
    \/ FetchResolve
    \/ FetchReject
    \/ RowClick
    \/ SelectionChange
    \/ SortChange

(***************************************************************************)
(* Specifications                                                          *)
(***************************************************************************)
\* the split pane alone, under every configuration
SplitSpecInit == SplitInit /\ StoreInit

SplitSpec == SplitSpecInit /\ [][SplitNext]_vars

\* the store and the table of the demo application, one fetch at a time
StoreSpecInit == SplitDefaultInit /\ StoreInit

StoreSpec == StoreSpecInit /\ [][StoreNext]_vars

\* the sorted view over every dataset, sort setting and engine
SortSpecInit ==
    /\ SplitDefaultInit
    /\ \E d \in Datasets(MaxRows), eng \in Engines : useMasterStore(d, "single", eng)

SortNext ==
    \/ SetSort
    \/ SortChange

SortSpec == SortSpecInit /\ [][SortNext]_vars

\* overlapping fetchData calls on the store of the demo application, with the
\* row clicks that select among the rows they deliver and the header clicks
\* that sort them
FetchSpecInit == SplitDefaultInit /\ StoreInit

FetchNext ==
    \/ FetchStart
    \/ FetchResolve
    \/ FetchReject
    \/ RowClick
    \/ SortChange

FetchSpec == FetchSpecInit /\ [][FetchNext]_vars

\* the master table under every selection mode: the events of its el-table
TableSpecInit ==
    /\ SplitDefaultInit
    /\ \E d \in Datasets(MaxPayload), mode \in SelectionModes, eng \in Engines :
        useMasterStore(d, mode, eng)

TableNext ==
    \/ RowClick
    \/ SelectionChange
    \/ SortChange

TableSpec == TableSpecInit /\ [][TableNext]_vars

(***************************************************************************)
(* Properties of the split-ratio engine                                    *)
(***************************************************************************)
minLeftRatioNow == Div(options.minLeftWidth, containerRect.width)
maxLeftRatioNow == OneMinus(Div(options.minRightWidth, containerRect.width))

\* the last event was a pointer-move that handleMouseMove processed
MoveProcessed ==
    /\ lastEvent.type = "mousemove"
    /\ lastEvent.wasDragging
    /\ containerAttached

\* C1: a pointer-move processed while dragging, in a container wider than
\* minLeftWidth + minRightWidth, leaves the ratio within
\* [minLeftWidth / width, 1 - minRightWidth / width], wherever the pointer is;
\* with width 1000, minimums 400 / 400 and the pointer 100 px from the left
\* edge the ratio is 0.4.
C1_DragRatioWithinBounds ==
    /\ (MoveProcessed
        /\ containerRect.width > options.minLeftWidth + options.minRightWidth)
       => /\ RLeq(minLeftRatioNow, splitRatio)
          /\ RLeq(splitRatio, maxLeftRatioNow)
    /\ (MoveProcessed
        /\ containerRect.width = 1000
        /\ options.minLeftWidth = 400
        /\ options.minRightWidth = 400
        /\ lastEvent.clientX - containerRect.left = 100)
       => splitRatio = Div(4, 10)

\* C1 witness: the scenario of the claim, the pointer left of the lower bound
C1_Witness ==
    /\ MoveProcessed
    /\ options = DefaultOptions
    /\ containerRect = [left |-> 0, width |-> 1000]
    /\ lastEvent.clientX = 100
    /\ splitRatio = Div(4, 10)

\* C2: in every state of a mounted split pane whose container is at least
\* minLeftWidth + minRightWidth wide, ratio * width >= minLeftWidth and
\* (1 - ratio) * width >= minRightWidth.
C2_MinWidthsRespected ==
    (containerAttached
     /\ containerRect.width >= options.minLeftWidth + options.minRightWidth)
    => /\ RLeq(minLeftRatioNow, splitRatio)
       /\ RLeq(splitRatio, maxLeftRatioNow)

\* C9: a pointer-move received while dragging is false changes nothing (the
\* ratio, the dragging flag, the cursor, the geometry and the listeners stay as
\* they were), so the ratio stays put from a pointer-up until the next
\* pointer-down.
C9_MoveWhileNotDraggingIsNoOp ==
    [][(lastEvent'.type = "mousemove" /\ ~isDragging)
       => UNCHANGED <<options, containerRect, mountState, listeners, splitRatio,
                      isDragging, body>>]_vars

\* C9 witness: after a drag that moved the ratio has ended, a pointer-move at a
\* position that would give another ratio has been received and ignored
C9_Witness ==
    /\ lastEvent.type = "mousemove"
    /\ ~lastEvent.wasDragging
    /\ ~isDragging
    /\ containerAttached
    /\ splitRatio # options.initialRatio
    /\ newSplitRatio(lastEvent.clientX, containerRect, options) # splitRatio

\* C10: a pointer-up handled by the split pane leaves dragging false and the
\* document body's cursor and user-select at their defaults, whatever the state
\* before it.
C10_MouseUpRevertsCursor ==
    lastEvent.type = "mouseup"
    => /\ ~isDragging
       /\ body = [cursor |-> "", userSelect |-> ""]

\* C11: a pointer-down on the resizer sets dragging and the drag-feedback
\* cursor when resizing is enabled and a container is attached, and changes
\* nothing otherwise; with resizing disabled dragging is false and the ratio is
\* the configured initial ratio in every state.
C11_BeginDragOnlyWhenResizable ==
    /\ [][lastEvent'.type = "mousedown"
          => IF options.resizable /\ containerAttached
             THEN /\ isDragging'
                  /\ body' = [cursor |-> "col-resize", userSelect |-> "none"]
                  /\ UNCHANGED <<options, containerRect, mountState, listeners,
                                 splitRatio>>
             ELSE UNCHANGED <<options, containerRect, mountState, listeners,
                              splitRatio, isDragging, body>>]_vars
    /\ [](~options.resizable
          => /\ ~isDragging
             /\ splitRatio = options.initialRatio)

\* C11 witness: a pointer-down reached a mounted split pane whose resizing is
\* disabled, and was ignored
C11_Witness ==
    /\ lastEvent.type = "mousedown"
    /\ ~options.resizable
    /\ containerAttached
    /\ ~isDragging
    /\ body.cursor = ""
    /\ splitRatio = options.initialRatio

\* the container is too narrow for the two minimum widths
MinimumsConflict == options.minLeftWidth + options.minRightWidth > containerRect.width

\* C21: the document listeners of a resizable instance are registered exactly
\* while it is mounted, and no document pointer-move or pointer-up that occurs
\* before mount or after unmount changes the ratio or the dragging flag, also
\* when the instance was unmounted during a drag.
C21_ListenersScopedToMount ==
    /\ [](listeners <=> (mountState = "mounted" /\ options.resizable))
    /\ [][(/\ mountState # "mounted"
            /\ lastEvent'.type \in {"mousemove", "mouseup", "unheard"})
           => UNCHANGED <<splitRatio, isDragging>>]_vars

\* C21 witness: the instance was unmounted during a drag, and a document event
\* has occurred since
C21_Witness ==
    /\ mountState = "unmounted"
    /\ isDragging
    /\ ~listeners
    /\ lastEvent.type = "unheard"
    /\ splitRatio # options.initialRatio

\* C22: the dragging flag of an instance changes only in a pointer-down or a
\* pointer-up (a newly created instance starts with its own flag, false); a
\* pointer-move, processed or ignored, leaves it as it is.
C22_DraggingOwnedByBeginEndDrag ==
    [][/\ isDragging' # isDragging
          => lastEvent'.type \in {"mousedown", "mouseup", "setup"}
       /\ (isDragging' /\ ~isDragging) => lastEvent'.type = "mousedown"
       /\ lastEvent'.type = "mousemove" => isDragging' = isDragging]_vars

\* C22 witness: a pointer-move left of the container was processed during a
\* drag, and the drag goes on
C22_Witness ==
    /\ MoveProcessed
    /\ lastEvent.clientX < containerRect.left
    /\ isDragging
    /\ splitRatio # options.initialRatio

\* C23: a pointer-up leaves the ratio exactly as it is, that is as the last
\* processed pointer-move set it, and so does a pointer-down.
C23_EndDragCommitsRatio ==
    [][lastEvent'.type \in {"mouseup", "mousedown"}
       => splitRatio' = splitRatio]_vars

\* C23 witness: a drag that moved the ratio away from its initial value has
\* been ended by a pointer-up
C23_Witness ==
    /\ lastEvent.type = "mouseup"
    /\ lastEvent.wasDragging
    /\ ~isDragging
    /\ containerAttached
    /\ splitRatio # options.initialRatio

\* C30: the document body carries the drag-feedback cursor, or has text
\* selection disabled, only while the split-pane instance is mounted and
\* dragging.
C30_DragCursorOnlyWhileDragging ==
    (body.cursor = "col-resize" \/ body.userSelect = "none")
    => (mountState = "mounted" /\ isDragging)

\* C12 as claimed: when minLeftWidth + minRightWidth exceeds the container
\* width, a pointer-move processed during a drag leaves the ratio at the
\* midpoint of minLeftWidth / width and 1 - minRightWidth / width.
C12_ConflictClampsToMidpoint ==
    (MoveProcessed /\ MinimumsConflict)
    => splitRatio = Midpoint(minLeftRatioNow, maxLeftRatioNow)

\* C12 amended: when minLeftWidth + minRightWidth exceeds the container width,
\* a pointer-move processed during a drag leaves the ratio at the lower bound
\* minLeftWidth / width, wherever the pointer is.
C12_ConflictClampsToLowerBound ==
    (MoveProcessed /\ MinimumsConflict)
    => splitRatio = minLeftRatioNow

\* C12 witness: in a container too narrow for the two minimums, a pointer-move
\* inside the container, away from the lower bound, was processed
C12_Witness ==
    /\ MoveProcessed
    /\ MinimumsConflict
    /\ lastEvent.clientX - containerRect.left > 0
    /\ lastEvent.clientX - containerRect.left < containerRect.width
    /\ lastEvent.clientX - containerRect.left # options.minLeftWidth
    /\ splitRatio = minLeftRatioNow

\* C13: the split ratio is within [0, 1] in every state, for every initial
\* ratio in [0, 1], every container width and every sequence of events.
C13_RatioWithinUnitInterval ==
    /\ splitRatio.num >= 0
    /\ splitRatio.num <= splitRatio.den

\* C14: in every state the left width percentage, ratio * 100, and the right
\* width percentage, (1 - ratio) * 100, sum to exactly 100.
C14_PercentagesSumToHundred ==
    RAdd(leftWidth, rightWidth) = Hundred

\* C15: while dragging, a pointer-move at the position of the pointer-move just
\* processed, against the same container geometry, leaves the ratio as it is;
\* and after every processed pointer-move the ratio is the value determined by
\* the pointer position, the container geometry and the options alone.
C15_UpdateDragIdempotent ==
    /\ [][(/\ MoveProcessed
            /\ isDragging
            /\ lastEvent'.type = "mousemove"
            /\ lastEvent'.clientX = lastEvent.clientX
            /\ containerRect' = containerRect)
           => splitRatio' = splitRatio]_vars
    /\ [](MoveProcessed
          => splitRatio = newSplitRatio(lastEvent.clientX, containerRect, options))

\* C15 witness: a pointer-move strictly between the two bounds was processed
\* and moved the ratio away from its initial value
C15_Witness ==
    /\ MoveProcessed
    /\ splitRatio # options.initialRatio
    /\ RLt(minLeftRatioNow, splitRatio)
    /\ RLt(splitRatio, maxLeftRatioNow)
    /\ splitRatio = Div(lastEvent.clientX - containerRect.left, containerRect.width)

(***************************************************************************)
(* Properties of the table state store                                     *)
(***************************************************************************)
Paired == (selectedRow = Null) <=> (selectedIndex = -1)

\* C3: replacing the dataset, by setData or by a fetchData that succeeded, ends
\* with selectedRow null and selectedIndex -1, whatever was selected before and
\* whatever the new rows are.
C3_ReplaceRowsClearsSelection ==
    lastCall.op \in {"setData", "fetchResolve"}
    => /\ selectedRow = Null
       /\ selectedIndex = -1

\* C3 witness: the dataset was replaced while a row was selected, and the new
\* rows contain that row
C3_Witness ==
    /\ lastCall.op = "setData"
    /\ lastCall.prevRow # Null
    /\ lastCall.prevIndex >= 0
    /\ \E i \in 1..Len(data) : data[i] = lastCall.prevRow
    /\ selectedRow = Null
    /\ selectedIndex = -1

\* C4 as claimed: in every state selectedRow is null exactly when
\* selectedIndex is -1.
C4_SelectionAlwaysPaired == Paired

\* C4 amended: every operation writes selectedRow and selectedIndex together.
\* selectRow stores exactly the pair it is given; every other operation either
\* leaves both as they are or leaves them paired (null with -1, a row with its
\* index).  The pairing can therefore be lost only by a selectRow call given a
\* null row with an index other than -1, or a row with index -1.
C4_SelectionWrittenTogether ==
    [][IF lastCall'.op = "selectRow"
       THEN /\ selectedRow' = lastCall'.row
            /\ selectedIndex' = lastCall'.index
       ELSE \/ UNCHANGED <<selectedRow, selectedIndex>>
            \/ (selectedRow' = Null /\ selectedIndex' = -1)
            \/ (selectedRow' # Null /\ selectedIndex' >= 0)]_vars

\* C4 witness: setData found a row stored with index -1 (left by a selectRow
\* call) and cleared both
C4_Witness ==
    /\ lastCall.op = "setData"
    /\ lastCall.prevRow # Null
    /\ lastCall.prevIndex = -1
    /\ selectedRow = Null
    /\ selectedIndex = -1

\* C17: with selectionMode 'none' no table event selects a row: selectedRow is
\* null and selectedIndex is -1 in every state.
C17_NoneModeNeverSelects ==
    selectionMode = "none"
    => /\ selectedRow = Null
       /\ selectedIndex = -1

\* C18: setLoading(flag) leaves isLoading equal to flag and changes nothing
\* else: rows, selectedRow, selectedIndex, sort key and sort direction stay as
\* they were, for both flag values and from every state.
C18_SetLoadingOnlySetsFlag ==
    [][lastCall'.op = "setLoading"
       => /\ isLoading' = lastCall'.flag
          /\ UNCHANGED <<data, selectedRow, selectedIndex, sortColumn,
                         sortDirection>>]_vars

\* C18 witness: setLoading(true) ran with a row selected and a sort in force
C18_Witness ==
    /\ lastCall.op = "setLoading"
    /\ lastCall.flag
    /\ isLoading
    /\ selectedRow # Null
    /\ selectedIndex >= 0
    /\ sortColumn \in Columns
    /\ sortDirection \in Directions
    /\ Len(data) > 0

\* a row was just selected through the table: a row click in single mode, or a
\* checkbox change in multiple mode that left rows checked
SelectedThroughTable ==
    \/ (lastCall.op = "rowClick" /\ selectionMode = "single")
    \/ (lastCall.op = "selectionChange" /\ selectionMode = "multiple"
        /\ lastCall.row # Null)

C27_SelectedIndexIsDataPosition ==
    SelectedThroughTable
    => /\ selectedIndex >= 0
       /\ selectedIndex < Len(data)
       /\ data[selectedIndex + 1] = selectedRow

\* C20: whenever a fetchData call delivers its response, rows become that
\* response and the selection is cleared, also when a call started later has
\* delivered its response before; so a slower, earlier-started fetch overwrites
\* the rows of a faster, later-started one.
C20_LastResponseWins ==
    lastCall.op = "fetchResolve"
    => /\ data = lastCall.rows
       /\ selectedRow = Null
       /\ selectedIndex = -1

\* C20 witness: of two overlapping fetches the one started later delivered
\* first and a row of its dataset was selected; then the one started earlier
\* delivered a dataset without that row, replacing rows and the selection
C20_Witness ==
    /\ lastCall.op = "fetchResolve"
    /\ lastCall.flag
    /\ lastCall.prevRow # Null
    /\ lastCall.prevIndex >= 0
    /\ \A i \in 1..Len(data) : data[i] # lastCall.prevRow
    /\ data = lastCall.rows
    /\ selectedRow = Null
    /\ selectedIndex = -1

\* C28: the loading flag is true in every state in which a fetchData call is
\* suspended at its await, also when several calls overlap and one of them has
\* run to its end.
C28_LoadingWhileAnyInFlight ==
    Len(inFlight) > 0 => isLoading

\* C29: a fetchData call that fails leaves rows, selectedRow, selectedIndex,
\* the sort key and the sort direction as they were and its promise is
\* fulfilled, not rejected; right after a fetchData call has run to its end,
\* with or without rows delivered, the loading flag is false.
C29_FailedFetchLeavesStateAlone ==
    /\ [][lastCall'.op = "fetchReject"
          => /\ UNCHANGED <<data, selectedRow, selectedIndex, sortColumn,
                            sortDirection>>
             /\ lastCall'.promise = "fulfilled"]_vars
    /\ [](lastCall.op \in {"fetchResolve", "fetchReject"}
          => /\ ~isLoading
             /\ lastCall.promise = "fulfilled")

\* C29 witness: a fetchData call failed while a row was selected and a sort
\* was in force, and another call is still suspended
C29_Witness ==
    /\ lastCall.op = "fetchReject"
    /\ lastCall.promise = "fulfilled"
    /\ selectedRow # Null
    /\ selectedIndex >= 0
    /\ sortColumn \in Columns
    /\ sortDirection \in Directions
    /\ Len(data) > 0
    /\ Len(inFlight) > 0
    /\ ~isLoading

C26_ViewersIsolated ==
    [][observedBy("B")' = observedBy("B")]_vars

\* C26 amended: the two viewers hold the same store, so each observes at all
\* times the rows, selection, sort and loading flag the other one does; what
\* one viewer selects is the other's selection.
C26_ViewersShareOneStore ==
    /\ observedBy("B") = observedBy("A")
    /\ lastCall.op = "selectRow"
       => /\ observedBy("B").selectedRow = lastCall.row
          /\ observedBy("B").selectedIndex = lastCall.index

\* C26 witness: viewer A has selected a row, replaced by nothing since, while a
\* sort it set is in force: viewer B observes that selection and that sort
C26_Witness ==
    /\ lastCall.op = "selectRow"
    /\ lastCall.row # Null
    /\ observedBy("B").selectedRow = lastCall.row
    /\ observedBy("B").sortColumn \in Columns
    /\ observedBy("B") # untouchedStore

(***************************************************************************)
(* Properties of the sorted view                                           *)
(***************************************************************************)
SortActive == sortColumn \in Columns /\ sortDirection \in Directions

\* a's key comes strictly before b's in the current direction
KeyBefore(a, b) ==
    IF sortDirection = "asc" THEN JsLess(a, b, sortColumn) ELSE JsLess(b, a, sortColumn)

PositionIn(s, row) == CHOOSE i \in 1..Len(s) : s[i] = row

\* C5: with a sort key and direction set, the sorted view is a permutation of
\* rows in which no row stands before a row whose key comes before its own, and
\* rows of equal key keep their original relative order.
C5_SortedViewIsStableSort ==
    SortActive =>
        LET view == sortedData
        IN  /\ Len(view) = Len(data)
            /\ {view[i] : i \in 1..Len(view)} = {data[i] : i \in 1..Len(data)}
            /\ \A i, j \in 1..Len(view) :
                i < j => /\ ~KeyBefore(view[j], view[i])
                         /\ (~KeyBefore(view[i], view[j])
                             => PositionIn(data, view[i]) < PositionIn(data, view[j]))

\* C6 as claimed: after setSort with a null key, the stored sort column and the
\* stored sort direction are both null.
C6_NullKeyClearsColumnAndDirection ==
    (lastCall.op = "setSort" /\ lastCall.key = NullKey)
    => /\ sortColumn = NullKey
       /\ sortDirection = NullDir

\* C6 amended: after setSort with a null key the stored sort column is null and
\* the stored direction is the direction that was passed; the sort is cleared in
\* effect, the sorted view being rows in their stored order.
C6_NullKeyClearsSortInEffect ==
    (lastCall.op = "setSort" /\ lastCall.key = NullKey)
    => /\ sortColumn = NullKey
       /\ sortDirection = lastCall.dir
       /\ sortedData = data

\* C6 witness: setSort(null, 'asc') on a dataset that sorting would reorder
C6_Witness ==
    /\ lastCall.op = "setSort"
    /\ lastCall.key = NullKey
    /\ lastCall.dir = "asc"
    /\ sortDirection = "asc"
    /\ \E col \in Columns : ArraySort(data, col, "asc", engine) # data

\* C7: after setSort with a null key (any direction) or a null direction (any
\* key), called directly or by a header click, the sorted view is rows in
\* insertion order.
C7_ClearedSortRestoresInsertionOrder ==
    (/\ lastCall.op \in {"setSort", "sortChange"}
     /\ (lastCall.key = NullKey \/ lastCall.dir = NullDir))
    => sortedData = data

\* C7 witness: the third header click on a column by which sorting, in either
\* direction, reorders the rows
C7_Witness ==
    /\ lastCall.op = "sortChange"
    /\ lastCall.dir = NullDir
    /\ sortColumn \in Columns
    /\ sortedData = data
    /\ ArraySort(data, sortColumn, "asc", engine) # data
    /\ ArraySort(data, sortColumn, "desc", engine) # data

\* C8: setting the sort and deriving the sorted view never change rows.
C8_SortNeverMutatesRows == [][data' = data]_vars

\* C16: with a sort in force on a key that some rows lack, every row without
\* the key stands before every row with the key when ascending, and after every
\* such row when descending.
C16_MissingKeySortsLowest ==
    (SortActive /\ sortColumn = "name")
    => LET view == sortedData
       IN  \A i, j \in 1..Len(view) :
            (view[i].name = Undefined /\ view[j].name # Undefined)
            => IF sortDirection = "asc" THEN i < j ELSE i > j

\* C24: for every key, the comparator's descending result is the inverse of its
\* ascending result and it is 0 exactly for rows of equal key value; for rows
\* with pairwise distinct key values the descending view is the reverse of the
\* ascending view; rows of equal key value keep their relative order in both
\* directions.
C24_DescendingIsReverseOfAscending ==
    \A col \in Columns :
        LET asc == ArraySort(data, col, "asc", engine)
            desc == ArraySort(data, col, "desc", engine)
            n == Len(data)
        IN  /\ \A i, j \in 1..n :
                /\ compare(data[i], data[j], col, "desc")
                   = 0 - compare(data[i], data[j], col, "asc")
                /\ (compare(data[i], data[j], col, "asc") = 0)
                   <=> (data[i][col] = data[j][col])
            /\ (\A i, j \in 1..n : i # j => data[i][col] # data[j][col])
               => desc = Reverse(asc)
            /\ \A i, j \in 1..n :
                (i < j /\ data[i][col] = data[j][col])
                => /\ PositionIn(asc, data[i]) < PositionIn(asc, data[j])
                   /\ PositionIn(desc, data[i]) < PositionIn(desc, data[j])

\* C8 witness: a sort is in force whose view differs from rows
C8_Witness ==
    /\ lastCall.op = "setSort"
    /\ SortActive
    /\ sortedData # data

====
